---- MODULE Spec2Model ----
(***************************************************************************)
(* Model of latlon-vectors.js: the LatLonV point type and its n-vector     *)
(* geodesy operations.                                                     *)
(*                                                                         *)
(* Numbers.  A JavaScript number is modelled as a record [nan, v]: either  *)
(* NaN or an exact integer v.  Coordinates and bearings are drawn from the *)
(* multiples of 90 degrees, where sin and cos are exactly -1, 0 or 1, so   *)
(* every n-vector is an integer vector.  Angles in radians are counted in  *)
(* units of pi/4 (MathPI = 4), so toRadians/toDegrees are real             *)
(* conversions (x * MathPI / 180 and x * 180 / MathPI) and distances come  *)
(* out in units of (pi/4) * radius-unit.  Rounding error and the sign of   *)
(* zero are not modelled.                                                  *)
(*                                                                         *)
(* Calls.  Every operation of the library is a call; a call either returns *)
(* a value or throws.  The program is single-threaded: it is either        *)
(* between calls (op = "idle") or has just completed one, and the state    *)
(* then holds the call: its name, the arguments as supplied, the caller's  *)
(* array after the call, the plane normals the call resolved, and the      *)
(* outcome.  Continue takes the program on to its next call.               *)
(***************************************************************************)
EXTENDS Integers, Sequences, FiniteSets, TLC

VARIABLES op, args, points, normals, result

vars == <<op, args, points, normals, result>>

(***************************************************************************)
(* Bounds of the model.                                                    *)
(***************************************************************************)
MaxRadius == 2      \* explicit radius arguments are 1..MaxRadius
MaxPoly   == 4      \* vertex arrays have 0..MaxPoly entries

Lats     == {-90, 0, 90}
Lons     == {-90, 0, 90, 180}
Bearings == {0, 90, 180, 270}

(***************************************************************************)
(* JavaScript numbers and outcomes of calls.                               *)
(***************************************************************************)
N(i) == [nan |-> FALSE, v |-> i]
NaN  == [nan |-> TRUE, v |-> 0]

Return(x) == [kind |-> "return", value |-> x]
Throw(e)  == [kind |-> "throw", error |-> e]

Add(a, b) == IF a.nan \/ b.nan THEN NaN ELSE N(a.v + b.v)
Sub(a, b) == IF a.nan \/ b.nan THEN NaN ELSE N(a.v - b.v)
Mul(a, b) == IF a.nan \/ b.nan THEN NaN ELSE N(a.v * b.v)
Neg(a)    == IF a.nan THEN NaN ELSE N(-a.v)

\* a / b.  0/0 is NaN; the quotients that occur are exact (x/0 with x # 0
\* does not occur: a vector of length 0 has only 0 components).
Div(a, b) ==
    IF a.nan \/ b.nan \/ b.v = 0 THEN NaN
    ELSE IF a.v >= 0 THEN N(a.v \div b.v) ELSE N(-((-a.v) \div b.v))

\* a % b of JavaScript: the sign of the result follows the dividend.
Mod(a, b) ==
    IF a.nan \/ b.nan \/ b.v = 0 THEN NaN
    ELSE IF a.v >= 0 THEN N(a.v % b.v) ELSE N(-((-a.v) % b.v))

\* a == b of JavaScript on numbers: NaN equals nothing.
NumEq(a, b) == ~a.nan /\ ~b.nan /\ a.v = b.v

\* a < b of JavaScript on numbers: false when either is NaN.
NumLt(a, b) == ~a.nan /\ ~b.nan /\ a.v < b.v

MathPI == 4

MathSin(a) ==
    IF a.nan THEN NaN
    ELSE CASE a.v % 8 = 0 -> N(0)
           [] a.v % 8 = 2 -> N(1)
           [] a.v % 8 = 4 -> N(0)
           [] a.v % 8 = 6 -> N(-1)

MathCos(a) ==
    IF a.nan THEN NaN
    ELSE CASE a.v % 8 = 0 -> N(1)
           [] a.v % 8 = 2 -> N(0)
           [] a.v % 8 = 4 -> N(-1)
           [] a.v % 8 = 6 -> N(0)

\* Math.sqrt on the perfect squares.
MathSqrt(a) ==
    IF a.nan \/ a.v < 0 THEN NaN
    ELSE N(CHOOSE r \in 0..a.v : r * r = a.v)

\* Math.atan2(y, x) on the directions that are multiples of 45 degrees;
\* atan2(0, 0) = 0.
MathAtan2(y, x) ==
    IF y.nan \/ x.nan THEN NaN
    ELSE CASE y.v = 0 /\ x.v >= 0     -> N(0)
           [] y.v = 0 /\ x.v < 0      -> N(4)
           [] x.v = 0 /\ y.v > 0      -> N(2)
           [] x.v = 0 /\ y.v < 0      -> N(-2)
           [] y.v > 0 /\ x.v = y.v    -> N(1)
           [] y.v > 0 /\ x.v = -y.v   -> N(3)
           [] y.v < 0 /\ x.v = y.v    -> N(-3)
           [] y.v < 0 /\ x.v = -y.v   -> N(-1)

MathSign(a) ==
    IF a.nan THEN NaN
    ELSE IF a.v < 0 THEN N(-1) ELSE IF a.v > 0 THEN N(1) ELSE N(0)

toRadians(a) == Div(Mul(a, N(MathPI)), N(180))

toDegrees(a) == Div(Mul(a, N(180)), N(MathPI))

(***************************************************************************)
(* Vector3d.  The class is imported from ./vector3d, which is not part of  *)
(* the source at hand; its algebra is taken from the specification.        *)
(***************************************************************************)
Vector3d(x, y, z) == [x |-> x, y |-> y, z |-> z]

plus(a, b) == Vector3d(Add(a.x, b.x), Add(a.y, b.y), Add(a.z, b.z))

dot(a, b) == Add(Add(Mul(a.x, b.x), Mul(a.y, b.y)), Mul(a.z, b.z))

cross(a, b) ==
    Vector3d(Sub(Mul(a.y, b.z), Mul(a.z, b.y)),
             Sub(Mul(a.z, b.x), Mul(a.x, b.z)),
             Sub(Mul(a.x, b.y), Mul(a.y, b.x)))

length(a) == MathSqrt(dot(a, a))

\* unit(a) is a divided by its length.  For a vector of length 0 the
\* specification leaves it "fails/undefined": with fails it throws, without
\* it the division 0/0 makes every component NaN.
unit(a, fails) ==
    LET norm == length(a) IN
    IF NumEq(norm, N(0)) /\ fails THEN Throw("DegenerateInput")
    ELSE Return(Vector3d(Div(a.x, norm), Div(a.y, norm), Div(a.z, norm)))

angleTo(a, b) == MathAtan2(length(cross(a, b)), dot(a, b))

(***************************************************************************)
(* Values passed as arguments.  A LatLonV object is a record with fields   *)
(* lat, lon, radius; a number or undefined is a record [t, n].             *)
(***************************************************************************)
Undefined == [t |-> "undefined", n |-> NaN]
Num(i)    == [t |-> "number", n |-> N(i)]

IsObject(x) == "lat" \in DOMAIN x

\* typeof x
TypeOf(x) == IF IsObject(x) THEN "object" ELSE x.t

\* function LatLonV(lat, lon, radius)
LatLonV(lat, lon, radius) ==
    LET r == IF TypeOf(radius) = "undefined" THEN Num(6371) ELSE radius IN
    [lat |-> lat, lon |-> lon, radius |-> r.n]

\* The methods LatLonV.prototype defines, and the functions on LatLonV.
LatLonVMethods ==
    {"toVector", "greatCircle", "distanceTo", "bearingTo", "midpointTo",
     "destinationPoint", "crossTrackDistanceTo", "enclosedBy", "equals",
     "toString"}

\* LatLonV.prototype.toVector
toVector(this) ==
    LET phi    == toRadians(this.lat)
        lambda == toRadians(this.lon)
    IN  Vector3d(Mul(MathCos(phi), MathCos(lambda)),
                 Mul(MathCos(phi), MathSin(lambda)),
                 MathSin(phi))

\* Vector3d.prototype.toLatLon
toLatLon(this) ==
    LET phi    == MathAtan2(this.z, MathSqrt(Add(Mul(this.x, this.x), Mul(this.y, this.y))))
        lambda == MathAtan2(this.y, this.x)
    IN  LatLonV(toDegrees(phi), toDegrees(lambda), Undefined)

\* LatLonV.prototype.toString.  Geo, the formatting collaborator, is not
\* declared in the file: the call formats the point when a global Geo is
\* loaded (geo) and ends in a ReferenceError when it is not.
toString(this, geo) ==
    IF geo THEN Return("lat, lon") ELSE Throw("ReferenceError")

\* Number(x): a number is itself, undefined is NaN, an object is converted
\* through its toString, and the string of a point is not numeric.
Number(x, geo) ==
    IF IsObject(x)
    THEN LET s == toString(x, geo) IN
         IF s.kind = "throw" THEN s ELSE Return(NaN)
    ELSE Return(x.n)

\* x.m(...) where x is a LatLonV, a number or undefined: the call can be
\* made when x is an object whose prototype defines m.
HasMethod(x, m) == IsObject(x) /\ m \in LatLonVMethods

\* The value of an identifier in a function's scope.
Lookup(name, scope) ==
    IF name \in DOMAIN scope THEN Return(scope[name]) ELSE Throw("ReferenceError")

\* typeof name, which is "undefined" for an identifier that is not declared.
TypeOfName(name, scope) ==
    IF name \in DOMAIN scope THEN TypeOf(scope[name]) ELSE "undefined"

\* LatLonV.prototype.greatCircle
greatCircle(this, bearing, geo) ==
    LET phi    == toRadians(this.lat)
        lambda == toRadians(this.lon)
        b      == Number(bearing, geo)
    IN  IF b.kind = "throw" THEN b
        ELSE LET theta == toRadians(b.value) IN
             Return(Vector3d(
                 Sub(Mul(MathSin(lambda), MathCos(theta)),
                     Mul(Mul(MathSin(phi), MathCos(lambda)), MathSin(theta))),
                 Sub(Mul(Neg(MathCos(lambda)), MathCos(theta)),
                     Mul(Mul(MathSin(phi), MathSin(lambda)), MathSin(theta))),
                 Mul(MathCos(phi), MathSin(theta))))

\* distanceTo scaling the angle by a wrong field of the receiver
distanceToScaledByLon(this, point) ==
    LET p1    == toVector(this)
        p2    == toVector(point)
        delta == angleTo(p1, p2)
        d     == Mul(delta, this.lon)
    IN  Return(d)

\* LatLonV.prototype.distanceTo
distanceTo(this, point) ==
    LET p1    == toVector(this)
        p2    == toVector(point)
        delta == angleTo(p1, p2)
        d     == Mul(delta, this.radius)
    IN  Return(d)

\* LatLonV.prototype.bearingTo
bearingTo(this, point) ==
    LET p1        == toVector(this)
        p2        == toVector(point)
        northPole == Vector3d(N(0), N(0), N(1))
        c1        == cross(p1, p2)
        c2        == cross(p1, northPole)
        sin0      == length(cross(c1, c2))
        cosTheta  == dot(c1, c2)
        sinTheta  == IF NumLt(dot(cross(c1, c2), p1), N(0)) THEN Neg(sin0) ELSE sin0
        bearing   == toDegrees(MathAtan2(sinTheta, cosTheta))
    IN  Return(Mod(Add(bearing, N(360)), N(360)))

\* LatLonV.prototype.midpointTo
midpointTo(this, point, unitFails) ==
    LET p1  == toVector(this)
        p2  == toVector(point)
        mid == unit(plus(p1, p2), unitFails)
    IN  IF mid.kind = "throw" THEN mid ELSE Return(toLatLon(mid.value))

\* LatLonV.intersection.  The outcome comes with the plane normals c1, c2
\* the call resolved before it ended.
intersection(path1start, path1brngEnd, path2start, path2brngEnd, geo) ==
    LET c1 == IF TypeOf(path1brngEnd) = "LatLonV"
              THEN IF HasMethod(path1start, "cross")
                   THEN Return(cross(toVector(path1start), toVector(path1brngEnd)))
                   ELSE Throw("TypeError")
              ELSE greatCircle(path1start, path1brngEnd, geo)
        c2 == IF TypeOf(path2brngEnd) = "LatLonV"
              THEN IF HasMethod(path2start, "cross")
                   THEN Return(cross(toVector(path2start), toVector(path2brngEnd)))
                   ELSE Throw("TypeError")
              ELSE greatCircle(path2start, path2brngEnd, geo)
    IN  IF c1.kind = "throw" THEN [normals |-> <<>>, result |-> c1]
        ELSE IF c2.kind = "throw" THEN [normals |-> <<c1.value>>, result |-> c2]
        ELSE [normals |-> <<c1.value, c2.value>>,
              result  |-> Return(toLatLon(cross(c1.value, c2.value)))]

\* LatLonV.prototype.crossTrackDistanceTo.  The test reads the identifier
\* pathbrngEnd, which the function does not declare.
crossTrackDistanceTo(this, pathStart, pathBrngEnd, geo) ==
    LET scope == [pathStart |-> pathStart, pathBrngEnd |-> pathBrngEnd]
        p     == toVector(this)
        gc    == IF TypeOfName("pathbrngEnd", scope) = "LatLonV"
                 THEN LET pathEnd == Lookup("pathbrngEnd", scope) IN
                      IF pathEnd.kind = "throw" THEN pathEnd
                      ELSE IF HasMethod(pathStart, "cross")
                           THEN Return(cross(toVector(pathStart), toVector(pathEnd.value)))
                           ELSE Throw("TypeError")
                 ELSE LET pathBrng == Number(pathBrngEnd, geo) IN
                      IF pathBrng.kind = "throw" THEN pathBrng
                      ELSE IF HasMethod(pathStart, "greatCircle")
                           THEN greatCircle(pathStart, [t |-> "number", n |-> pathBrng.value], geo)
                           ELSE Throw("TypeError")
    IN  IF gc.kind = "throw" THEN [normals |-> <<>>, result |-> gc]
        ELSE LET alpha == Sub(Div(N(MathPI), N(2)), angleTo(p, gc.value))
                 d     == Mul(alpha, this.radius)
             IN  [normals |-> <<gc.value>>, result |-> Return(d)]

\* equals reading its parameter point in all three comparisons
equalsOfPoint(this, point) ==
    Return(/\ NumEq(this.lat, point.lat)
           /\ NumEq(this.lon, point.lon)
           /\ NumEq(this.radius, point.radius))

\* LatLonV.prototype.equals.  The first comparison reads the identifier
\* points, which the function does not declare.
equals(this, point) ==
    LET scope == [point |-> point]
        pts   == Lookup("points", scope)
    IN  IF pts.kind = "throw" THEN pts
        ELSE Return(/\ NumEq(this.lat, pts.value.lat)
                    /\ NumEq(this.lon, point.lon)
                    /\ NumEq(this.radius, point.radius))

\* points[i] of JavaScript, i counted from 0.
At(pts, i) == IF i >= 0 /\ i < Len(pts) THEN pts[i + 1] ELSE Undefined

\* The loop of enclosedBy from index p on: p1 and p2 are the indices p-1
\* and p themselves, not the vertices at them.
RECURSIVE enclosedByLoop(_, _, _, _, _, _)
enclosedByLoop(this, pts, p, side, turn, geo) ==
    IF ~(p < Len(pts)) THEN Return(TRUE)
    ELSE
      LET p1 == Num(p - 1)
          p2 == Num(p)
          d  == crossTrackDistanceTo(this, p2, p2, geo).result
      IN
      IF d.kind = "throw" THEN d
      ELSE IF ~NumEq(MathSign(d.value), side) THEN Return(FALSE)
      \* p1.cross.p2: a property of undefined cannot be read; a property p2
      \* of a function is undefined, whose sign is NaN
      ELSE IF ~HasMethod(p1, "cross") THEN Throw("TypeError")
      ELSE IF ~NumEq(NaN, turn) THEN Throw("Polygon must be convex")
      ELSE enclosedByLoop(this, pts, p + 1, side, turn, geo)

\* LatLonV.prototype.enclosedBy.  The outcome comes with the caller's
\* array as the call leaves it.
enclosedBy(this, pts, geo) ==
    LET closed == IF HasMethod(At(pts, 0), "equals")
                  THEN equals(At(pts, 0), At(pts, Len(pts) - 1))
                  ELSE Throw("TypeError")
    IN
    IF closed.kind = "throw" THEN [points |-> pts, result |-> closed]
    ELSE
      LET popped == IF closed.value THEN SubSeq(pts, 1, Len(pts) - 1) ELSE pts
          p1     == At(popped, Len(popped) - 1)
          p2     == At(popped, 0)
          d      == crossTrackDistanceTo(this, p2, p2, geo).result
      IN
      IF d.kind = "throw" THEN [points |-> popped, result |-> d]
      \* turn = Math.sign(p1.cross.p2), as in the loop
      ELSE IF ~HasMethod(p1, "cross") THEN [points |-> popped, result |-> Throw("TypeError")]
      ELSE [points |-> popped,
            result |-> enclosedByLoop(this, popped, 1, MathSign(d.value), NaN, geo)]

\* LatLonV.meanOf: m.plus(points[p]) in the loop, m.unit() after it, m a
\* LatLonV.
meanOf(pts) ==
    LET m == LatLonV(N(0), N(0), Num(0)) IN
    IF Len(pts) > 0
    THEN IF HasMethod(m, "plus") THEN Return(m) ELSE Throw("TypeError")
    ELSE IF HasMethod(m, "unit") THEN Return(m) ELSE Throw("TypeError")

(***************************************************************************)
(* The calls a program makes.                                              *)
(***************************************************************************)
RadiusArgs == {Undefined} \cup {Num(r) : r \in 1..MaxRadius}

\* every point new LatLonV(lat, lon, radius) of the lattice
Points == {LatLonV(N(la), N(lo), r) : la \in Lats, lo \in Lons, r \in RadiusArgs}

\* the points new LatLonV(lat, lon), of the default radius
DefaultPoints == {LatLonV(N(la), N(lo), Undefined) : la \in Lats, lo \in Lons}

\* the vertices polygons are made of
Vertices ==
    {LatLonV(N(0), N(0), Undefined), LatLonV(N(0), N(90), Undefined),
     LatLonV(N(90), N(0), Undefined), LatLonV(N(0), N(180), Undefined),
     LatLonV(N(0), N(0), Num(1))}

Polygons == UNION {[1..n -> Vertices] : n \in 0..MaxPoly}

\* a path's second argument: a bearing (b in Bearings) or an end point e
PathArg(b, e) == IF b \in Bearings THEN Num(b) ELSE e

PathChoices == Bearings \cup {-1}

\* the end points paths are given by
EndPoints == Vertices \cap DefaultPoints

EndChoices(b) == IF b \in Bearings THEN {CHOOSE e \in EndPoints : TRUE} ELSE EndPoints

\* the sums midpointTo normalises have an integer length on the lattice
\* when the two points coincide or are antipodal
ExactLength(v) == \E r \in 0..2 : dot(v, v) = N(r * r)

Init ==
    /\ op = "idle"
    /\ args = <<>>
    /\ points = <<>>
    /\ normals = <<>>
    /\ result = Return(TRUE)

DistanceTo ==
    /\ op = "idle"
    /\ \E a \in Points, b \in Points :
        /\ op' = "distanceTo"
        /\ args' = [this |-> a, point |-> b]
        /\ points' = <<>>
        /\ normals' = <<>>
        /\ result' = distanceTo(a, b)

BearingTo ==
    /\ op = "idle"
    /\ \E a \in Points, b \in Points :
        /\ op' = "bearingTo"
        /\ args' = [this |-> a, point |-> b]
        /\ points' = <<>>
        /\ normals' = <<>>
        /\ result' = bearingTo(a, b)

MidpointTo ==
    /\ op = "idle"
    /\ \E a \in Points, b \in Points, unitFails \in BOOLEAN :
        /\ ExactLength(plus(toVector(a), toVector(b)))
        /\ op' = "midpointTo"
        /\ args' = [this |-> a, point |-> b]
        /\ points' = <<>>
        /\ normals' = <<>>
        /\ result' = midpointTo(a, b, unitFails)

Intersection ==
    /\ op = "idle"
    /\ \E s1 \in DefaultPoints, s2 \in DefaultPoints, geo \in BOOLEAN :
      \E b1 \in PathChoices, b2 \in PathChoices :
        \E e1 \in EndChoices(b1), e2 \in EndChoices(b2) :
          LET r == intersection(s1, PathArg(b1, e1), s2, PathArg(b2, e2), geo) IN
          /\ op' = "intersection"
          /\ args' = [path1start |-> s1, path1brngEnd |-> PathArg(b1, e1),
                      path2start |-> s2, path2brngEnd |-> PathArg(b2, e2)]
          /\ points' = <<>>
          /\ normals' = r.normals
          /\ result' = r.result

CrossTrackDistanceTo ==
    /\ op = "idle"
    /\ \E a \in Points, s \in DefaultPoints, geo \in BOOLEAN :
      \E b \in PathChoices :
        \E e \in EndChoices(b) :
          LET r == crossTrackDistanceTo(a, s, PathArg(b, e), geo) IN
          /\ op' = "crossTrackDistanceTo"
          /\ args' = [this |-> a, pathStart |-> s, pathBrngEnd |-> PathArg(b, e)]
          /\ points' = <<>>
          /\ normals' = r.normals
          /\ result' = r.result

EnclosedBy ==
    /\ op = "idle"
    /\ \E a \in DefaultPoints, pts \in Polygons, geo \in BOOLEAN :
        LET r == enclosedBy(a, pts, geo) IN
        /\ op' = "enclosedBy"
        /\ args' = [this |-> a, points |-> pts]
        /\ points' = r.points
        /\ normals' = <<>>
        /\ result' = r.result

MeanOf ==
    /\ op = "idle"
    /\ \E pts \in Polygons :
        /\ op' = "meanOf"
        /\ args' = [points |-> pts]
        /\ points' = pts
        /\ normals' = <<>>
        /\ result' = meanOf(pts)

Equals ==
    /\ op = "idle"
    /\ \E a \in Points, b \in Points :
        /\ op' = "equals"
        /\ args' = [this |-> a, point |-> b]
        /\ points' = <<>>
        /\ normals' = <<>>
        /\ result' = equals(a, b)

Continue ==
    /\ op # "idle"
    /\ op' = "idle"
    /\ args' = <<>>
    /\ points' = <<>>
    /\ normals' = <<>>
    /\ result' = Return(TRUE)

Next ==
    \/ Continue
    \/ DistanceTo
    \/ BearingTo
    \/ MidpointTo
    \/ Intersection
    \/ CrossTrackDistanceTo
    \/ EnclosedBy
    \/ MeanOf
    \/ Equals

Spec == Init /\ [][Next]_vars
(***************************************************************************)
(* Reference notions the properties are stated with.                       *)
(***************************************************************************)
\* the zero vector
IsZero(v) == NumEq(v.x, N(0)) /\ NumEq(v.y, N(0)) /\ NumEq(v.z, N(0))

\* the vertex after i on the ring of n vertices
Succ(i, n) == (i % n) + 1

\* turn direction at the vertex triple starting at vertex i
Turn(pts, i) ==
    LET n == Len(pts)
        a == toVector(pts[i])
        b == toVector(pts[Succ(i, n)])
        c == toVector(pts[Succ(Succ(i, n), n)])
    IN  MathSign(dot(cross(a, b), c))

IsConvex(pts) ==
    /\ Len(pts) >= 3
    /\ ~NumEq(Turn(pts, 1), N(0))
    /\ \A i \in 1..Len(pts) : Turn(pts, i) = Turn(pts, 1)

NonConvex(pts) ==
    /\ Len(pts) >= 3
    /\ \E i \in 1..Len(pts) : Turn(pts, i) # Turn(pts, 1)

\* sign of the cross-track distance of pt from the edge (vertex i, vertex i+1)
EdgeSide(pt, pts, i) ==
    LET gc == cross(toVector(pts[i]), toVector(pts[Succ(i, Len(pts))])) IN
    MathSign(Mul(Sub(Div(N(MathPI), N(2)), angleTo(toVector(pt), gc)), pt.radius))

SameSideOfAllEdges(pt, pts) ==
    \A i \in 1..Len(pts) : EdgeSide(pt, pts, i) = EdgeSide(pt, pts, 1)

RECURSIVE VectorSum(_)
VectorSum(pts) ==
    IF pts = <<>> THEN Vector3d(N(0), N(0), N(0))
    ELSE plus(toVector(Head(pts)), VectorSum(Tail(pts)))

FieldsEqual(a, b) ==
    NumEq(a.lat, b.lat) /\ NumEq(a.lon, b.lon) /\ NumEq(a.radius, b.radius)

ReturnsPoint(r) == r.kind = "return" /\ IsObject(r.value)

(***************************************************************************)
(* Properties.                                                             *)
(***************************************************************************)

\* C1: when the plane normals c1 and c2 of the two paths coincide or are
\* anti-parallel (cross(c1, c2) is the zero vector), intersection reports
\* that there is no unique intersection and does not return a point.
C1_DegenerateIntersectionReported ==
    (/\ op = "intersection"
     /\ Len(normals) = 2
     /\ IsZero(cross(normals[1], normals[2])))
        => ~ReturnsPoint(result)

\* C2: when the second argument of a path is an end point, the plane
\* normal of the path is cross(start, end), in intersection (both paths)
\* and in crossTrackDistanceTo.
C2_EndPointPlaneIsCross ==
    /\ (op = "intersection" /\ IsObject(args.path1brngEnd))
          => /\ Len(normals) >= 1
             /\ normals[1] = cross(toVector(args.path1start), toVector(args.path1brngEnd))
    /\ (op = "intersection" /\ IsObject(args.path2brngEnd))
          => /\ Len(normals) = 2
             /\ normals[2] = cross(toVector(args.path2start), toVector(args.path2brngEnd))
    /\ (op = "crossTrackDistanceTo" /\ IsObject(args.pathBrngEnd))
          => /\ Len(normals) = 1
             /\ normals[1] = cross(toVector(args.pathStart), toVector(args.pathBrngEnd))

\* C3: for a convex polygon of n >= 3 vertices, enclosedBy returns a
\* boolean, true exactly when the sign of the point's cross-track distance
\* is the same for all n edges (vertex i, vertex i+1 mod n).
C3_EnclosedIffSameSide ==
    (op = "enclosedBy" /\ IsConvex(args.points))
        => /\ result.kind = "return"
           /\ (result.value = TRUE) <=> SameSideOfAllEdges(args.this, args.points)

\* C4: for a non-convex vertex sequence enclosedBy ends with the error
\* 'Polygon must be convex' and returns neither true nor false.
C4_NonConvexRejected ==
    (op = "enclosedBy" /\ NonConvex(args.points))
        => result = Throw("Polygon must be convex")

\* C5: for a non-empty list whose n-vectors do not sum to zero, meanOf
\* returns the point in the direction unit(sum of toVector(p)).
C5_MeanIsUnitOfSum ==
    (/\ op = "meanOf"
     /\ Len(args.points) > 0
     /\ ~IsZero(VectorSum(args.points)))
        => /\ result.kind = "return"
           /\ result.value = toLatLon(unit(VectorSum(args.points), FALSE).value)

\* C6: a.equals(b) returns a boolean, true exactly when lat, lon and
\* radius of a and b are equal, and never ends in an error.
C6_EqualsIsFieldEquality ==
    op = "equals"
        => /\ result.kind = "return"
           /\ result.value <=> FieldsEqual(args.this, args.point)

\* C7: p.bearingTo(p) is reported as an error (DegenerateInput) and does
\* not return a bearing.
C7_SelfBearingDegenerate ==
    (op = "bearingTo" /\ args.this = args.point)
        => result.kind = "throw"

\* C8: midpointTo of exactly antipodal points (v1 + v2 is the zero vector)
\* reports an error (DegenerateInput) and does not return a point.
C8_AntipodalMidpointDegenerate ==
    (/\ op = "midpointTo"
     /\ IsZero(plus(toVector(args.this), toVector(args.point))))
        => result.kind = "throw"

\* C9 as stated: a.distanceTo(b) = b.distanceTo(a) for all points a and b,
\* points of different radius included.
C9_DistanceSymmetric ==
    op = "distanceTo"
        => NumEq(result.value, distanceTo(args.point, args.this).value)

\* C9 amended: a.distanceTo(b) = b.distanceTo(a) for all points a and b
\* constructed with the same radius.
C9_DistanceSymmetricSameRadius ==
    (op = "distanceTo" /\ NumEq(args.this.radius, args.point.radius))
        => NumEq(result.value, distanceTo(args.point, args.this).value)

\* a call between two distinct points of the same radius, a non-zero
\* distance apart
C9_Witness ==
    /\ op = "distanceTo"
    /\ NumEq(args.this.radius, args.point.radius)
    /\ args.this # args.point
    /\ result.kind = "return"
    /\ NumLt(N(0), result.value)

====
